---- MODULE Spec2Model ----
(***************************************************************************)
(* readnest-backend: the hybrid persistence layer (hybrid_service.py over  *)
(* database_service.py and the JSON collection files) and the journal      *)
(* endpoints of main.py that drive it.                                     *)
(***************************************************************************)
EXTENDS Integers, Sequences, FiniteSets, TLC

\* ------------------------------------------------------------------ bounds
\* Most words in a journal content.
MaxWords == 2
\* Number of record ids the id generators hand out.
MaxIds == 1
\* Number of ticks of the wall clock (datetime.now()).
MaxClock == 2

\* ------------------------------------------------------------------ inputs
Users == {"u1", "u2"}
Titles == {"t1", "t2"}
\* The characters of a journal content: a word character or whitespace.
Chars == {"x", " "}
\* The text of n one-letter words separated by single spaces.
Words(n) == [i \in 1..(IF n = 0 THEN 0 ELSE 2 * n - 1) |->
                IF i % 2 = 1 THEN "x" ELSE " "]
Contents == {Words(n) : n \in 0..MaxWords}

\* What one call of a DatabaseService method can do:
\*   "ok"    the Supabase request succeeds;
\*   "fault" the Supabase request raises inside the method's try block;
\*   "raise" an exception leaves the method and reaches
\*           HybridService._try_database_operation (hybrid_service.py:29).
DbOutcomes == {"ok", "fault", "raise"}

\* Optional[...] values: <<>> is None, <<v>> is a present value.
None == <<>>
Some(v) == <<v>>

VARIABLES
    use_database,   \* HybridService.use_database
    dbJournals,     \* rows of the remote journals table, in insertion order
    journalsFile,   \* journals.json
    clock,          \* datetime.now()
    nextId,         \* ids handed out so far
    createdInDb,    \* ids that create_journal returned from the remote store
    last,           \* the last step: the call made, the flag before it, and
                    \* what the remote store did during it
    web,            \* what each feed url serves (feedparser.parse(url))
    dbFeeds,        \* rows of the remote feed_subscriptions table
    feedsFile,      \* feed_subscriptions.json
    dbArticles,     \* rows of the remote articles table
    articlesFile,   \* articles.json
    nextFeedId,     \* subscription ids handed out so far
    lastParse,      \* the parse_rss_feed call of the last add_feed_subscription
    pc,             \* per request thread: where its update_journal call stands
    req,            \* per request thread: the call's arguments and locals
    crashed,        \* the process was killed
    maxStamp,       \* per journal id: the largest updated_at ever stored
    ret,            \* what the last journal read or delete gave its caller
    trip,           \* a collection on its way to its JSON file and back
    kw,             \* a text and what extract_keywords returns for it
    fe,             \* a feed entry and the article parse_rss_feed makes of it
    dataDir,        \* the files of the data directory (feeds.json, feeds.tmp)
    ingest          \* the last call of ingest_rss or write_db and its outcome

journalVars == <<dbJournals, journalsFile, nextId, createdInDb>>
feedVars == <<web, dbFeeds, feedsFile, dbArticles, articlesFile, nextFeedId, lastParse>>
concVars == <<pc, req, crashed, maxStamp>>
pureVars == <<kw, fe>>
ingestVars == <<dataDir, ingest>>
vars == <<use_database, clock, last, journalVars, feedVars, concVars, ret, trip,
          pureVars, ingestVars>>

\* ------------------------------------------------------------ pure helpers
\* len(content.split()): the number of maximal runs of non-whitespace.
WordCount(content) ==
    Cardinality({i \in 1..Len(content) :
        content[i] # " " /\ (i = 1 \/ content[i - 1] = " ")})

\* ---- extract_keywords(text, top_n = 30)
\* A text is a sequence of characters.  Whitespace is what \s matches,
\* punctuation what [^\w\s] matches; every other character is a word
\* character (\w).
Whitespace == {" ", "\n"}
Punctuation == {".", ",", "'", "-"}
Digits == {"0", "1", "2", "3", "4", "5", "6", "7", "8", "9"}

\* str.lower(), on the upper-case letters texts hold here.
LowerChar(c) == IF c = "T" THEN "t" ELSE IF c = "B" THEN "b" ELSE c
Lower(text) == [i \in 1..Len(text) |-> LowerChar(text[i])]

\* re.sub(r'[^\w\s]', ' ', text): each punctuation character becomes a space.
SubPunctuation(text) ==
    [i \in 1..Len(text) |-> IF text[i] \in Punctuation THEN " " ELSE text[i]]

\* str.split(): the maximal runs of non-whitespace, from left to right.
Split(text) ==
    LET starts == {i \in 1..Len(text) :
                      text[i] \notin Whitespace
                          /\ (i = 1 \/ text[i - 1] \in Whitespace)}
        Start(n) == CHOOSE i \in starts :
                        Cardinality({k \in starts : k < i}) = n - 1
        End(i) == CHOOSE j \in i..Len(text) :
                        /\ \A k \in i..j : text[k] \notin Whitespace
                        /\ (j = Len(text) \/ text[j + 1] \in Whitespace)
    IN  [n \in 1..Cardinality(starts) |-> SubSeq(text, Start(n), End(Start(n)))]

\* stop_words
StopWords ==
    {<<"a">>, <<"a", "n">>, <<"a", "n", "d">>, <<"a", "r", "e">>,
     <<"a", "s">>, <<"a", "t">>, <<"b", "e">>, <<"b", "e", "e", "n">>,
     <<"b", "y">>, <<"f", "o", "r">>, <<"f", "r", "o", "m">>,
     <<"h", "a", "s">>, <<"h", "e">>, <<"i", "n">>, <<"i", "s">>,
     <<"i", "t">>, <<"i", "t", "s">>, <<"o", "f">>, <<"o", "n">>,
     <<"t", "h", "a", "t">>, <<"t", "h", "e">>, <<"t", "o">>,
     <<"w", "a", "s">>, <<"w", "e", "r", "e">>, <<"w", "i", "l", "l">>,
     <<"w", "i", "t", "h">>, <<"t", "h", "i", "s">>, <<"b", "u", "t">>,
     <<"t", "h", "e", "y">>, <<"h", "a", "v", "e">>, <<"h", "a", "d">>,
     <<"w", "h", "a", "t">>, <<"s", "a", "i", "d">>, <<"e", "a", "c", "h">>,
     <<"w", "h", "i", "c", "h">>, <<"t", "h", "e", "i", "r">>,
     <<"t", "i", "m", "e">>, <<"a", "b", "o", "u", "t">>, <<"i", "f">>,
     <<"u", "p">>, <<"o", "u", "t">>, <<"m", "a", "n", "y">>,
     <<"t", "h", "e", "n">>, <<"t", "h", "e", "m">>,
     <<"t", "h", "e", "s", "e">>, <<"s", "o">>, <<"s", "o", "m", "e">>,
     <<"h", "e", "r">>, <<"w", "o", "u", "l", "d">>, <<"m", "a", "k", "e">>,
     <<"l", "i", "k", "e">>, <<"i", "n", "t", "o">>, <<"h", "i", "m">>,
     <<"t", "w", "o">>, <<"m", "o", "r", "e">>, <<"w", "r", "i", "t", "e">>,
     <<"g", "o">>, <<"s", "e", "e">>, <<"n", "u", "m", "b", "e", "r">>,
     <<"n", "o">>, <<"w", "a", "y">>, <<"c", "o", "u", "l", "d">>,
     <<"p", "e", "o", "p", "l", "e">>, <<"m", "y">>, <<"t", "h", "a", "n">>,
     <<"f", "i", "r", "s", "t">>, <<"c", "a", "l", "l">>, <<"w", "h", "o">>,
     <<"o", "i", "l">>, <<"s", "i", "t">>, <<"n", "o", "w">>,
     <<"f", "i", "n", "d">>, <<"d", "o", "w", "n">>, <<"d", "a", "y">>,
     <<"d", "i", "d">>, <<"g", "e", "t">>, <<"c", "o", "m", "e">>,
     <<"m", "a", "d", "e">>, <<"m", "a", "y">>, <<"p", "a", "r", "t">>,
     <<"n", "e", "w">>, <<"s", "a", "v", "e">>, <<"e", "n", "t", "r", "y">>,
     <<"e", "n", "t", "r", "i", "e", "s">>, <<"n", "o", "t", "e">>,
     <<"n", "o", "t", "e", "s">>, <<"j", "o", "u", "r", "n", "a", "l">>,
     <<"j", "o", "u", "r", "n", "a", "l", "s">>, <<"r", "e", "a", "d">>,
     <<"r", "e", "a", "d", "i", "n", "g">>, <<"t", "e", "x", "t">>,
     <<"c", "o", "n", "t", "e", "n", "t">>, <<"t", "i", "t", "l", "e">>,
     <<"k", "e", "y", "w", "o", "r", "d">>,
     <<"k", "e", "y", "w", "o", "r", "d", "s">>}

\* str.isdigit()
IsDigit(t) == t # <<>> /\ \A i \in 1..Len(t) : t[i] \in Digits

\* len(t) > 3
MinKeywordLen == 3

\* (variant: words of exactly three characters are kept too)
KeepFromThree(t) ==
    Len(t) >= MinKeywordLen /\ t \notin StopWords /\ ~IsDigit(t)

\* The condition of the list comprehension that filters the tokens.
Keep(t) ==
    Len(t) > MinKeywordLen /\ t \notin StopWords /\ ~IsDigit(t)

\* freq[token] = freq.get(token, 0) + 1, for each token in order.  A dict is
\* the sequence of its items in insertion order.
RECURSIVE CountTokens(_, _)
CountTokens(tokens, freq) ==
    IF tokens = <<>> THEN freq
    ELSE LET t == Head(tokens)
             at == {i \in 1..Len(freq) : freq[i].word = t}
         IN  CountTokens(Tail(tokens),
                IF at = {} THEN Append(freq, [word |-> t, count |-> 1])
                ELSE [i \in 1..Len(freq) |->
                        IF i \in at THEN [freq[i] EXCEPT !.count = @ + 1]
                        ELSE freq[i]])

\* sorted(freq.items(), key=lambda x: x[1], reverse=True): the sort is
\* stable, items with equal counts keep their order.
RECURSIVE SortedByCount(_)
SortedByCount(items) ==
    IF items = <<>> THEN <<>>
    ELSE LET top == CHOOSE i \in 1..Len(items) :
                        /\ \A k \in 1..Len(items) : items[k].count <= items[i].count
                        /\ \A k \in 1..(i - 1) : items[k].count < items[i].count
             rest == [k \in 1..(Len(items) - 1) |->
                        IF k < top THEN items[k] ELSE items[k + 1]]
         IN  <<items[top]>> \o SortedByCount(rest)

\* top_n: int = 30
TopN == 30

\* extract_keywords(text): the dict it returns, as the sequence of its items.
ExtractKeywords(text) ==
    LET tokens == SelectSeq(Split(SubPunctuation(Lower(text))), Keep)
        sorted_keywords == SortedByCount(CountTokens(tokens, <<>>))
    IN  IF text = <<>> \/ tokens = <<>> THEN <<>>
        ELSE SubSeq(sorted_keywords, 1,
                    IF Len(sorted_keywords) < TopN THEN Len(sorted_keywords)
                    ELSE TopN)

\* next((x for x in s if x.id == id), None), as an index (0: none).
FirstIndex(s, id) ==
    IF \E i \in 1..Len(s) : s[i].id = id
    THEN CHOOSE i \in 1..Len(s) :
            s[i].id = id /\ \A k \in 1..(i - 1) : s[k].id # id
    ELSE 0

\* ------------------------------------------------------------- file store
\* A collection file: absent, or present with the entries of its JSON array.
\* partial: the file is truncated or half written (not valid JSON).
\* An entry is valid when JournalEntry(**entry) accepts it.
AbsentFile == [exists |-> FALSE, partial |-> FALSE, data |-> <<>>]

\* record.dict(), as json.dump writes it.
Encode(rec) == [valid |-> TRUE, rec |-> rec]

\* open(path, 'w') + json.dump([r.dict() for r in records], f)
SaveToJson(records) ==
    [exists |-> TRUE, partial |-> FALSE,
     data |-> [i \in 1..Len(records) |-> Encode(records[i])]]

\* os.path.exists, json.load, [Model(**entry) for entry in data], and
\* `except Exception: return []` around the whole comprehension.
LoadFromJson(file) ==
    IF ~file.exists THEN <<>>
    ELSE IF file.partial THEN <<>>
    ELSE IF \E i \in 1..Len(file.data) : ~file.data[i].valid THEN <<>>
    ELSE [i \in 1..Len(file.data) |-> file.data[i].rec]

\* The decodable records of a parsable file, in file order.
ValidRecs(file) ==
    IF ~file.exists \/ file.partial THEN <<>>
    ELSE LET ok == SelectSeq(file.data, LAMBDA e : e.valid)
         IN  [i \in 1..Len(ok) |-> ok[i].rec]

\* ------------------------------------------------- journal update payloads
\* The dict the update endpoint builds: a key is present (Some) or not (None).
UpdateDicts == {[title |-> t, content |-> c] :
                  t \in {None} \cup {Some(x) : x \in Titles},
                  c \in {None} \cup {Some(x) : x \in Contents}}

\* journal_data.get('content', '')
ContentOr(data, default) == IF data.content = None THEN default ELSE data.content[1]

\* journal_data.get('keywords', default): the endpoint puts the key, with
\* extract_keywords(content), exactly when it puts content.
KeywordsOr(data, default) ==
    IF data.content = None THEN default ELSE Some(ExtractKeywords(data.content[1]))

\* ------------------------------------------------ DatabaseService (remote)
\* Each method wraps its Supabase request in try/except Exception and turns a
\* failure into a plain value.  o is "ok" or "fault".
DbGetJournal(db, id, o) ==
    IF o = "fault" THEN None
    ELSE IF FirstIndex(db, id) = 0 THEN None ELSE Some(db[FirstIndex(db, id)])

DbCreateJournal(db, data, now, id, o) ==
    LET journal_entry ==
            [id |-> id, title |-> data.title, content |-> data.content,
             created_at |-> now, updated_at |-> now,
             word_count |-> WordCount(data.content),
             keywords |-> data.keywords, user_id |-> data.user_id]
    IN  IF o = "fault" THEN [db |-> db, res |-> None]
        ELSE [db |-> Append(db, journal_entry), res |-> Some(journal_entry)]

\* update_data always carries updated_at and word_count (of the content given
\* in this request, '' when none is given); title and content only if given.
DbUpdateJournal(db, id, data, now, o) ==
    LET Upd(r) ==
            [r EXCEPT !.updated_at = now,
                      !.word_count = WordCount(ContentOr(data, <<>>)),
                      !.keywords = KeywordsOr(data, Some(<<>>)),
                      !.title = IF data.title = None THEN @ ELSE data.title[1],
                      !.content = IF data.content = None THEN @ ELSE data.content[1]]
        newdb == [i \in 1..Len(db) |-> IF db[i].id = id THEN Upd(db[i]) ELSE db[i]]
    IN  IF o = "fault" THEN [db |-> db, res |-> None]
        ELSE [db |-> newdb,
              res |-> IF FirstIndex(db, id) = 0 THEN None
                      ELSE Some(newdb[FirstIndex(db, id)])]

\* The query strings of the search endpoint, and `query in text` on the
\* values titles and contents take here: a title holds exactly itself, a
\* content holds "x" when it has a word.
Queries == Titles \cup {"x"}
Within(query, journal) ==
    \/ query = journal.title
    \/ query = "x" /\ \E i \in 1..Len(journal.content) : journal.content[i] = "x"
\* any(query_lower in keyword.lower() for keyword in journal.keywords.keys())
WithinKeys(query, keys) ==
    query = "x" /\ \E k \in 1..Len(keys) : \E i \in 1..Len(keys[k].word) :
                        keys[k].word[i] = "x"

\* .order('updated_at', desc=True): rows with the largest updated_at first
\* (rows with equal updated_at in table order).
RECURSIVE OrderDesc(_)
OrderDesc(rows) ==
    IF rows = <<>> THEN <<>>
    ELSE LET top == CHOOSE i \in 1..Len(rows) :
                        /\ \A k \in 1..Len(rows) : rows[k].updated_at <= rows[i].updated_at
                        /\ \A k \in 1..(i - 1) : rows[k].updated_at < rows[i].updated_at
             rest == [k \in 1..(Len(rows) - 1) |->
                        IF k < top THEN rows[k] ELSE rows[k + 1]]
         IN  <<rows[top]>> \o OrderDesc(rest)

\* select("*").eq('user_id', user_id).order('updated_at', desc=True)
DbGetAllJournals(db, user_id, o) ==
    IF o = "fault" THEN <<>>
    ELSE OrderDesc(SelectSeq(db, LAMBDA r : r.user_id = user_id))

\* select("*").eq('user_id', user_id).or_(title ilike, content ilike)
DbSearchJournals(db, query, user_id, o) ==
    IF o = "fault" THEN <<>>
    ELSE SelectSeq(db, LAMBDA r : r.user_id = user_id /\ Within(query, r))

DbDeleteJournal(db, id, o) ==
    IF o = "fault" THEN [db |-> db, res |-> FALSE]
    ELSE [db |-> SelectSeq(db, LAMBDA r : r.id # id), res |-> TRUE]

\* --------------------------------------------- HybridService: JSON fallback
CreateJournalJson(file, data, now, id) ==
    LET journals == LoadFromJson(file)
        new_journal ==
            [id |-> id, title |-> data.title, content |-> data.content,
             created_at |-> now, updated_at |-> now,
             word_count |-> WordCount(data.content),
             keywords |-> data.keywords, user_id |-> data.user_id]
    IN  [file |-> SaveToJson(Append(journals, new_journal)),
         res |-> Some(new_journal)]

\* (variant: the update also stamps the journal with the user "u2")
UpdateJournalJsonReassigning(file, id, data, now) ==
    LET journals == LoadFromJson(file)
        i == FirstIndex(journals, id)
        journal == [journals[i] EXCEPT !.updated_at = now, !.user_id = "u2"]
    IN  IF i = 0 THEN [file |-> file, res |-> None]
        ELSE [file |-> SaveToJson([journals EXCEPT ![i] = journal]),
              res |-> Some(journal)]

UpdateJournalJson(file, id, data, now) ==
    LET journals == LoadFromJson(file)
        i == FirstIndex(journals, id)
        content == IF data.content = None THEN journals[i].content
                   ELSE data.content[1]
        journal ==
            [journals[i] EXCEPT
                !.title = IF data.title = None THEN @ ELSE data.title[1],
                !.content = content,
                !.updated_at = now,
                !.word_count = WordCount(content),
                !.keywords = KeywordsOr(data, @)]
    IN  IF i = 0 THEN [file |-> file, res |-> None]
        ELSE [file |-> SaveToJson([journals EXCEPT ![i] = journal]),
              res |-> Some(journal)]

DeleteJournalJson(file, id) ==
    LET journals == LoadFromJson(file)
    IN  [file |-> SaveToJson(SelectSeq(journals, LAMBDA j : j.id # id)),
         res |-> TRUE]

GetJournalJson(file, id) ==
    LET journals == LoadFromJson(file)
    IN  IF FirstIndex(journals, id) = 0 THEN None
        ELSE Some(journals[FirstIndex(journals, id)])

\* What a call gives its caller: it raised, or it returned val (a list, or
\* an Optional as a list of at most one record) or ok (a bool).
Returned(val, ok) == [raised |-> FALSE, val |-> val, ok |-> ok]
Raised == [raised |-> TRUE, val |-> <<>>, ok |-> FALSE]

\* (variant: a load without the try/except, on which an undecodable file
\* raises into the caller)
GetAllJournalsJsonUnguarded(file) ==
    IF file.exists /\ (file.partial \/ \E i \in 1..Len(file.data) : ~file.data[i].valid)
    THEN Raised
    ELSE Returned(LoadFromJson(file), TRUE)

\* get_all_journals.json_operation: the whole file, whatever user_id is.
GetAllJournalsJson(file) == Returned(LoadFromJson(file), TRUE)

\* _search_journals_json(query)
\* The title and the content are tested first; journal.keywords.keys() is
\* evaluated for a journal neither of them matches, and raises
\* AttributeError when keywords is None.
SearchJournalsJson(file, query) ==
    LET loaded == GetAllJournalsJson(file)
        Matches(j) == Within(query, j) \/ WithinKeys(query, j.keywords[1])
    IN  IF loaded.raised THEN Raised
        ELSE IF \E i \in 1..Len(loaded.val) :
                    ~Within(query, loaded.val[i]) /\ loaded.val[i].keywords = None
        THEN Raised
        ELSE Returned(SelectSeq(loaded.val, Matches), TRUE)

\* ------------------------------------------- HybridService: the coordinator
\* _try_database_operation: which of the two callables produces the result,
\* and the flag afterwards.
\* (variant: a remote call is retried once the flag is down, and a success
\* raises the flag again)
TryDatabaseOperationRecovering(flag, o) ==
    IF ~flag THEN [flag |-> (o = "ok"), path |-> "json"]
    ELSE IF o = "raise" THEN [flag |-> FALSE, path |-> "json"]
    ELSE [flag |-> TRUE, path |-> "db"]

\* (variant: after an exception the fallback runs and the flag stays up)
TryDatabaseOperationKeepingFlag(flag, o) ==
    IF ~flag THEN [flag |-> FALSE, path |-> "json"]
    ELSE IF o = "raise" THEN [flag |-> TRUE, path |-> "json"]
    ELSE [flag |-> TRUE, path |-> "db"]

\* (variant: a failure inside a DatabaseService method reaches the
\* coordinator like an exception)
TryDatabaseOperationDegradingOnFault(flag, o) ==
    IF ~flag THEN [flag |-> FALSE, path |-> "json"]
    ELSE IF o \in {"raise", "fault"} THEN [flag |-> FALSE, path |-> "json"]
    ELSE [flag |-> TRUE, path |-> "db"]

TryDatabaseOperation(flag, o) ==
    IF ~flag THEN [flag |-> FALSE, path |-> "json"]
    ELSE IF o = "raise" THEN [flag |-> FALSE, path |-> "json"]
    ELSE [flag |-> TRUE, path |-> "db"]

\* The record of one step.
Call(op, o) == [op |-> op, pre |-> use_database, out |-> o]

\* What ret holds: the outcome of the call, the journal id and the user it
\* was made for (0 and NoUser when it takes none).
Outcome(r, id, user_id) ==
    [raised |-> r.raised, val |-> r.val, ok |-> r.ok, id |-> id, user |-> user_id]
NoReturn == Outcome(Returned(<<>>, TRUE), 0, "none")

\* ------------------------------------------------------------------- Init
\* A journal an earlier run of the process left in journals.json.
LegacyJournal ==
    [id |-> 0, title |-> "t1", content |-> <<"x">>, created_at |-> 0,
     updated_at |-> 0, word_count |-> 1, keywords |-> Some(<<>>), user_id |-> "u1"]

\* An entry JournalEntry(**entry) rejects (a required field is missing).
CorruptEntry == [valid |-> FALSE, rec |-> [LegacyJournal EXCEPT !.id = -1]]

InitialJournalFiles ==
    {AbsentFile,
     SaveToJson(<<LegacyJournal>>),
     [SaveToJson(<<LegacyJournal>>) EXCEPT !.data = Append(@, CorruptEntry)],
     SaveToJson(<<[LegacyJournal EXCEPT !.keywords = None]>>)}

\* ---- feeds and articles: records, the feed fetcher, the two stores
FeedUrls == {"f1", "f2"}
\* entry.get('link', ''): an article url, '' when the entry has no link.
Links == {"", "A", "B", "C"}
\* user_id of a record no user was assigned to.
NoUser == "none"

\* What feedparser.parse(url) returns: the bozo flag (the parser met a
\* structural error) and the links of the entries it recovered.
Doc(bozo, entries) == [bozo |-> bozo, entries |-> entries]
FeedDocs ==
    {Doc(TRUE, <<>>),               \* unreachable, or not a feed at all
     Doc(FALSE, <<>>),              \* a well-formed feed without entries
     Doc(FALSE, <<"A", "B">>),
     Doc(FALSE, <<"B", "C", "">>),
     Doc(TRUE, <<"A">>)}            \* one entry recovered before a malformed one

\* parse_rss_feed keeps feed.entries[:50].
EntryLimit == 50

\* The id parse_rss_feed makes up for the subscription it returns.  It is a
\* fresh value; create_feed_subscription stores the subscription under an id
\* of its own, so no stored subscription ever carries it.
ParsedFeedId == 0

Min(a, b) == IF a < b THEN a ELSE b

\* parse_rss_feed(feed_url): FetchError (failed), or the subscription and one
\* article per kept entry.
ParseRssFeed(url, doc, now) ==
    IF doc.bozo THEN [failed |-> TRUE, subscription |-> None, articles |-> <<>>]
    ELSE IF Len(doc.entries) = 0
    THEN [failed |-> TRUE, subscription |-> None, articles |-> <<>>]
    ELSE [failed |-> FALSE,
          subscription |-> Some([id |-> ParsedFeedId, url |-> url,
                                 last_updated |-> now, is_active |-> TRUE,
                                 user_id |-> NoUser]),
          articles |-> [i \in 1..Min(Len(doc.entries), EntryLimit) |->
                          [url |-> doc.entries[i], feed_id |-> ParsedFeedId,
                           user_id |-> NoUser]]]

\* ---- request threads (the endpoints are sync functions, which FastAPI runs
\* on a thread pool)
Threads == {1, 2}

NoRequest == [id |-> 0, data |-> [title |-> None, content |-> None], now |-> 0,
              snap |-> AbsentFile, flag |-> FALSE]

ConcIdle ==
    /\ pc = [t \in Threads |-> "idle"]
    /\ req = [t \in Threads |-> NoRequest]
    /\ crashed = FALSE
    /\ maxStamp = [id \in 0..MaxIds |-> 0]

\* No collection is on its way to a file.
TripIdle ==
    /\ trip = [kind |-> "journal", held |-> <<>>, phase |-> "none",
               file |-> AbsentFile, back |-> <<>>]

\* No text is handed to extract_keywords, no entry to parse_rss_feed.
NoEntry == [content |-> None, summary |-> None, description |-> None]
NoArticle == [content |-> <<>>, snippet |-> <<>>]
PureIdle ==
    /\ kw = [text |-> <<>>, phase |-> "none", result |-> <<>>]
    /\ fe = [entry |-> NoEntry, phase |-> "none", article |-> NoArticle]

\* ---- the data directory of the ingest endpoint
\* A file of it: absent, or present with the list under "feeds" of the JSON
\* object it holds; partial: the text is cut off (not valid JSON).
DataFileNames == {"data/feeds.json", "data/feeds.tmp"}
NoDataFile == [exists |-> FALSE, partial |-> FALSE, feeds |-> <<>>]
DataFile(feeds) == [exists |-> TRUE, partial |-> FALSE, feeds |-> feeds]
PartialDataFile == [exists |-> TRUE, partial |-> TRUE, feeds |-> <<>>]

\* No call of ingest_rss or write_db was made.
NoIngest == [op |-> "none", url |-> "", status |-> "none", obj |-> <<>>,
             killed |-> FALSE]

\* The data directory holds no file and nothing was ingested.
IngestIdle ==
    /\ dataDir = [n \in DataFileNames |-> NoDataFile]
    /\ ingest = NoIngest

FeedInit ==
    /\ web \in [FeedUrls -> {Doc(FALSE, <<"A", "B">>)}]
    /\ dbFeeds = <<>>
    /\ feedsFile = AbsentFile
    /\ dbArticles = <<>>
    /\ articlesFile = AbsentFile
    /\ nextFeedId = 0
    /\ lastParse = [called |-> FALSE, doc |-> Doc(TRUE, <<>>), failed |-> TRUE,
                    count |-> 0]

Init ==
    /\ use_database = TRUE
    /\ dbJournals = <<>>
    /\ journalsFile \in InitialJournalFiles
    /\ clock = 1
    /\ nextId = 0
    /\ createdInDb = {}
    /\ last = Call("init", "ok")
    /\ FeedInit
    /\ ConcIdle
    /\ ret = NoReturn
    /\ TripIdle
    /\ PureIdle
    /\ IngestIdle

\* ---------------------------------------------------------------- actions
JournalIds == 0..MaxIds

\* The wall clock advances between two reads of datetime.now().
Tick ==
    /\ clock < MaxClock
    /\ clock' = clock + 1
    /\ last' = Call("tick", "ok")
    /\ ret' = NoReturn
    /\ UNCHANGED <<pureVars, ingestVars, use_database, journalVars, feedVars,
                   concVars, trip>>

\* POST /api/journals -> hybrid_service.create_journal
CreateJournal ==
    \E u \in Users, title \in Titles, content \in Contents, o \in DbOutcomes :
        LET data == [title |-> title, content |-> content,
                     keywords |-> Some(ExtractKeywords(content)), user_id |-> u]
            t == TryDatabaseOperation(use_database, o)
            id == nextId + 1
            dbr == DbCreateJournal(dbJournals, data, clock, id, o)
            jsr == CreateJournalJson(journalsFile, data, clock, id)
            res == IF t.path = "db" THEN dbr.res ELSE jsr.res
        IN  /\ nextId < MaxIds
            /\ use_database' = t.flag
            /\ dbJournals' = IF t.path = "db" THEN dbr.db ELSE dbJournals
            /\ journalsFile' = IF t.path = "json" THEN jsr.file ELSE journalsFile
            /\ nextId' = IF res = None THEN nextId ELSE id
            /\ createdInDb' = IF t.path = "db" /\ res # None
                              THEN createdInDb \cup {id} ELSE createdInDb
            /\ last' = Call("create", o)
            /\ ret' = NoReturn
            /\ UNCHANGED <<pureVars, ingestVars, clock, feedVars, concVars,
                           trip>>

\* The users who send updates.  Journals are created by either user, so the
\* caller meets journals of their own and journals of the other user.
UpdateCallers == {"u2"}

\* PUT /api/journals/{id} -> hybrid_service.update_journal
\* ret holds the caller and the journal update_journal returned; the answer
\* is 404 without a journal, 403 for a journal of another user, else 200.
UpdateJournal ==
    \E u \in UpdateCallers, id \in JournalIds, data \in UpdateDicts,
       o \in DbOutcomes :
        LET t == TryDatabaseOperation(use_database, o)
            dbr == DbUpdateJournal(dbJournals, id, data, clock, o)
            jsr == UpdateJournalJson(journalsFile, id, data, clock)
            res == IF t.path = "db" THEN dbr.res ELSE jsr.res
        IN  /\ use_database' = t.flag
            /\ dbJournals' = IF t.path = "db" THEN dbr.db ELSE dbJournals
            /\ journalsFile' = IF t.path = "json" THEN jsr.file ELSE journalsFile
            /\ last' = Call("update", o)
            /\ ret' = Outcome(Returned(res, res # None), id, u)
            /\ UNCHANGED <<pureVars, ingestVars, clock, nextId, createdInDb,
                           feedVars, concVars, trip>>

\* DELETE /api/journals/{id} -> hybrid_service.delete_journal
DeleteJournal ==
    \E id \in JournalIds, o \in DbOutcomes :
        LET t == TryDatabaseOperation(use_database, o)
            dbr == DbDeleteJournal(dbJournals, id, o)
            jsr == DeleteJournalJson(journalsFile, id)
            ok == IF t.path = "db" THEN dbr.res ELSE jsr.res
        IN  /\ use_database' = t.flag
            /\ dbJournals' = IF t.path = "db" THEN dbr.db ELSE dbJournals
            /\ journalsFile' = IF t.path = "json" THEN jsr.file ELSE journalsFile
            /\ createdInDb' = IF ok THEN createdInDb \ {id} ELSE createdInDb
            /\ last' = Call("delete", o)
            /\ ret' = Outcome(Returned(<<>>, ok), id, "none")
            /\ UNCHANGED <<pureVars, ingestVars, clock, nextId, feedVars,
                           concVars, trip>>

\* GET /api/journals/{id} -> hybrid_service.get_journal
GetJournal ==
    \E id \in JournalIds, o \in DbOutcomes :
        LET t == TryDatabaseOperation(use_database, o)
            res == IF t.path = "db" THEN DbGetJournal(dbJournals, id, o)
                   ELSE GetJournalJson(journalsFile, id)
        IN  /\ use_database' = t.flag
            /\ last' = Call("get", o)
            /\ ret' = Outcome(Returned(res, res # None), id, "none")
            /\ UNCHANGED <<pureVars, ingestVars, clock, journalVars, feedVars,
                           concVars, trip>>

\* GET /api/journals -> hybrid_service.get_all_journals(user_id)
GetAllJournals ==
    \E u \in Users, o \in DbOutcomes :
        LET t == TryDatabaseOperation(use_database, o)
            res == IF t.path = "db"
                   THEN Returned(DbGetAllJournals(dbJournals, u, o), TRUE)
                   ELSE GetAllJournalsJson(journalsFile)
        IN  /\ use_database' = t.flag
            /\ last' = Call("list", o)
            /\ ret' = Outcome(res, 0, u)
            /\ UNCHANGED <<pureVars, ingestVars, clock, journalVars, feedVars,
                           concVars, trip>>

\* GET /api/journals/search/{query} -> hybrid_service.search_journals
SearchJournals ==
    \E u \in Users, query \in Queries, o \in DbOutcomes :
        LET t == TryDatabaseOperation(use_database, o)
            res == IF t.path = "db"
                   THEN Returned(DbSearchJournals(dbJournals, query, u, o), TRUE)
                   ELSE SearchJournalsJson(journalsFile, query)
        IN  /\ use_database' = t.flag
            /\ last' = Call("search", o)
            /\ ret' = Outcome(res, 0, u)
            /\ UNCHANGED <<pureVars, ingestVars, clock, journalVars, feedVars,
                           concVars, trip>>

Next ==
    \/ Tick \/ CreateJournal \/ UpdateJournal \/ DeleteJournal \/ GetJournal
    \/ GetAllJournals \/ SearchJournals

Spec == Init /\ [][Next]_vars

\* ================================================= feeds and articles
\* Most subscriptions the stores hold.
MaxSubs == 2
\* Most articles the stores hold.
MaxArticles == 5

\* ---- DatabaseService
DbGetAllFeedSubscriptions(db, user_id, o) ==
    IF o = "fault" THEN <<>>
    ELSE SelectSeq(db, LAMBDA f : f.user_id = user_id)

DbCreateFeedSubscription(db, feed_data, now, id, o) ==
    LET subscription ==
            [id |-> id, url |-> feed_data.url, last_updated |-> now,
             is_active |-> feed_data.is_active, user_id |-> feed_data.user_id]
    IN  IF o = "fault" THEN [db |-> db, res |-> None]
        ELSE [db |-> Append(db, subscription), res |-> Some(subscription)]

DbCreateArticle(db, article_data, o) ==
    LET article == [url |-> article_data.url, feed_id |-> article_data.feed_id,
                    user_id |-> article_data.user_id]
    IN  IF o = "fault" THEN [db |-> db, res |-> None]
        ELSE [db |-> Append(db, article), res |-> Some(article)]

\* ---- HybridService: JSON fallback
CreateFeedJson(file, feed_data, now, id) ==
    LET feeds == LoadFromJson(file)
        new_feed ==
            [id |-> id, url |-> feed_data.url, last_updated |-> now,
             is_active |-> feed_data.is_active, user_id |-> feed_data.user_id]
    IN  [file |-> SaveToJson(Append(feeds, new_feed)), res |-> Some(new_feed)]

CreateArticleJson(file, article_data) ==
    LET articles == LoadFromJson(file)
        new_article == [url |-> article_data.url, feed_id |-> article_data.feed_id,
                        user_id |-> article_data.user_id]
    IN  [file |-> SaveToJson(Append(articles, new_article)),
         res |-> Some(new_article)]

\* ---- hybrid_service.create_article for each article of a list, in order.
\* stores is [flag, db, file]: use_database and the two article stores.  The
\* remote store behaves the same way (o) for every call of one request.
RECURSIVE CreateArticles(_, _, _)
CreateArticles(stores, articles, o) ==
    IF articles = <<>> THEN stores
    ELSE LET t == TryDatabaseOperation(stores.flag, o)
             dbr == DbCreateArticle(stores.db, Head(articles), o)
             jsr == CreateArticleJson(stores.file, Head(articles))
             next == [flag |-> t.flag,
                      db |-> IF t.path = "db" THEN dbr.db ELSE stores.db,
                      file |-> IF t.path = "json" THEN jsr.file ELSE stores.file]
         IN  CreateArticles(next, Tail(articles), o)

\* a.user_id = ...; a.feed_id = ... for every article of a list
Assign(articles, user_id, feed_id) ==
    [i \in 1..Len(articles) |->
        [articles[i] EXCEPT !.user_id = user_id, !.feed_id = feed_id]]

ArticleCount == Len(dbArticles) + Len(ValidRecs(articlesFile))

\* ---- actions
\* The content a feed url serves changes.
Publish ==
    \E url \in FeedUrls, doc \in FeedDocs :
        /\ web[url] # doc
        /\ web' = [web EXCEPT ![url] = doc]
        /\ last' = Call("publish", "ok")
        /\ ret' = NoReturn
        /\ UNCHANGED <<pureVars, ingestVars, use_database, clock, journalVars,
                       concVars, trip, dbFeeds, feedsFile,
                       dbArticles, articlesFile, nextFeedId, lastParse>>

\* POST /api/feeds
AddFeedSubscription ==
    \E u \in Users, url \in FeedUrls, o \in DbOutcomes :
        LET p == ParseRssFeed(url, web[url], clock)
            subscription == [p.subscription[1] EXCEPT !.user_id = u]
            articles == Assign(p.articles, u, ParsedFeedId)
            t == TryDatabaseOperation(use_database, o)
            id == nextFeedId + 1
            dbr == DbCreateFeedSubscription(dbFeeds, subscription, clock, id, o)
            jsr == CreateFeedJson(feedsFile, subscription, clock, id)
            created == IF t.path = "db" THEN dbr.res ELSE jsr.res
            st == CreateArticles([flag |-> t.flag, db |-> dbArticles,
                                  file |-> articlesFile], articles, o)
        IN  /\ nextFeedId < MaxSubs
            /\ ArticleCount + Len(p.articles) <= MaxArticles
            /\ lastParse' = [called |-> TRUE, doc |-> web[url],
                             failed |-> p.failed, count |-> Len(p.articles)]
            /\ last' = Call("add_feed", o)
            /\ IF p.failed
               THEN UNCHANGED <<use_database, dbFeeds, feedsFile, dbArticles,
                                articlesFile, nextFeedId>>
               ELSE /\ use_database' = st.flag
                    /\ dbFeeds' = IF t.path = "db" THEN dbr.db ELSE dbFeeds
                    /\ feedsFile' = IF t.path = "json" THEN jsr.file ELSE feedsFile
                    /\ dbArticles' = st.db
                    /\ articlesFile' = st.file
                    /\ nextFeedId' = IF created = None THEN nextFeedId ELSE id
            /\ ret' = NoReturn
            /\ UNCHANGED <<pureVars, ingestVars, clock, journalVars, concVars,
                           trip, web>>

\* The loop of refresh_feeds over the active subscriptions: the first failed
\* fetch raises out of the loop; what was created before it stays.
RECURSIVE RefreshLoop(_, _, _, _)
RefreshLoop(stores, subs, u, o) ==
    IF subs = <<>> THEN stores
    ELSE LET sub == Head(subs)
             p == ParseRssFeed(sub.url, web[sub.url], clock)
         IN  IF p.failed THEN stores
             ELSE RefreshLoop(
                    CreateArticles(stores, Assign(p.articles, u, sub.id), o),
                    Tail(subs), u, o)

\* The articles one run of that loop hands to create_article.
RECURSIVE RefreshTotal(_)
RefreshTotal(subs) ==
    IF subs = <<>> THEN 0
    ELSE LET p == ParseRssFeed(Head(subs).url, web[Head(subs).url], clock)
         IN  IF p.failed THEN 0 ELSE Len(p.articles) + RefreshTotal(Tail(subs))

\* POST /api/feeds/refresh
\* ret holds the caller and whether the answer was 200 (no fetch failed).
RefreshFeeds ==
    \E u \in Users, o \in DbOutcomes :
        LET t == TryDatabaseOperation(use_database, o)
            subscriptions ==
                IF t.path = "db" THEN DbGetAllFeedSubscriptions(dbFeeds, u, o)
                ELSE LoadFromJson(feedsFile)
            active == SelectSeq(subscriptions, LAMBDA f : f.is_active)
            st == RefreshLoop([flag |-> t.flag, db |-> dbArticles,
                               file |-> articlesFile], active, u, o)
        IN  /\ ArticleCount + RefreshTotal(active) <= MaxArticles
            /\ use_database' = st.flag
            /\ dbArticles' = st.db
            /\ articlesFile' = st.file
            /\ last' = Call("refresh", o)
            /\ ret' = Outcome(Returned(<<>>, \A i \in 1..Len(active) :
                                    ~ParseRssFeed(active[i].url, web[active[i].url],
                                                  clock).failed),
                              0, u)
            /\ UNCHANGED <<pureVars, ingestVars, clock, journalVars, concVars,
                           trip, web, dbFeeds, feedsFile,
                           nextFeedId, lastParse>>

\* ---- delete
DbDeleteFeedSubscription(db, subscription_id, o) ==
    IF o = "fault" THEN [db |-> db, res |-> FALSE]
    ELSE [db |-> SelectSeq(db, LAMBDA f : f.id # subscription_id), res |-> TRUE]

DeleteFeedJson(file, subscription_id) ==
    LET feeds == LoadFromJson(file)
    IN  [file |-> SaveToJson(SelectSeq(feeds, LAMBDA f : f.id # subscription_id)),
         res |-> TRUE]

\* The flag and the four feed and article stores, as one value.
FeedStores ==
    [flag |-> use_database, feeds_db |-> dbFeeds, feeds_file |-> feedsFile,
     articles_db |-> dbArticles, articles_file |-> articlesFile]

\* (variant: the articles of the subscription are deleted with it)
HybridDeleteFeedSubscriptionCascading(stores, subscription_id, o) ==
    LET t == TryDatabaseOperation(stores.flag, o)
        dbr == DbDeleteFeedSubscription(stores.feeds_db, subscription_id, o)
        jsr == DeleteFeedJson(stores.feeds_file, subscription_id)
        Other(a) == a.feed_id # subscription_id
    IN  [stores EXCEPT
            !.flag = t.flag,
            !.feeds_db = IF t.path = "db" THEN dbr.db ELSE @,
            !.feeds_file = IF t.path = "json" THEN jsr.file ELSE @,
            !.articles_db = IF t.path = "db" THEN SelectSeq(@, Other) ELSE @,
            !.articles_file =
                IF t.path = "json" THEN SaveToJson(SelectSeq(LoadFromJson(@), Other))
                ELSE @]

\* hybrid_service.delete_feed_subscription(subscription_id): the stores after
\* it.
HybridDeleteFeedSubscription(stores, subscription_id, o) ==
    LET t == TryDatabaseOperation(stores.flag, o)
        dbr == DbDeleteFeedSubscription(stores.feeds_db, subscription_id, o)
        jsr == DeleteFeedJson(stores.feeds_file, subscription_id)
    IN  [stores EXCEPT
            !.flag = t.flag,
            !.feeds_db = IF t.path = "db" THEN dbr.db ELSE @,
            !.feeds_file = IF t.path = "json" THEN jsr.file ELSE @]

\* DELETE /api/feeds/subscriptions/{subscription_id}
DeleteFeedSubscription ==
    \E subscription_id \in 1..MaxSubs, o \in DbOutcomes :
        LET st == HybridDeleteFeedSubscription(FeedStores, subscription_id, o)
        IN  /\ use_database' = st.flag
            /\ dbFeeds' = st.feeds_db
            /\ feedsFile' = st.feeds_file
            /\ dbArticles' = st.articles_db
            /\ articlesFile' = st.articles_file
            /\ last' = Call("delete_feed", o)
            /\ ret' = NoReturn
            /\ UNCHANGED <<pureVars, ingestVars, clock, journalVars, concVars,
                           trip, web, nextFeedId,
                           lastParse>>

\* (variant: the set is built from every article, the ones without url too)
ExistingUrlsUnfiltered(all_articles) ==
    {all_articles[i].url : i \in 1..Len(all_articles)}

\* existing_urls = {article.url for article in all_articles if article.url}
ExistingUrls(all_articles) ==
    {all_articles[i].url : i \in 1..Len(all_articles)} \ {""}

\* for article in new_articles: if article.url not in existing_urls: append
Merge(all_articles, new_articles) ==
    all_articles \o
        SelectSeq(new_articles, LAMBDA a : a.url \notin ExistingUrls(all_articles))

\* The loop of refresh_all_feeds: [subscriptions, all_articles] after it.
\* A failed fetch is caught and the loop goes on with the next subscription.
RECURSIVE RefreshAllLoop(_, _, _)
RefreshAllLoop(subs, i, all_articles) ==
    IF i > Len(subs) THEN [subs |-> subs, articles |-> all_articles]
    ELSE LET sub == subs[i]
             p == ParseRssFeed(sub.url, web[sub.url], clock)
         IN  IF ~sub.is_active \/ p.failed
             THEN RefreshAllLoop(subs, i + 1, all_articles)
             ELSE RefreshAllLoop([subs EXCEPT ![i].last_updated = clock], i + 1,
                                 Merge(all_articles, p.articles))

\* refresh_all_feeds(), on feed_subscriptions.json and articles.json
RefreshAllFeeds ==
    LET subscriptions == LoadFromJson(feedsFile)
        all_articles == LoadFromJson(articlesFile)
        r == RefreshAllLoop(subscriptions, 1, all_articles)
    IN  /\ Len(dbArticles) + Len(r.articles) <= MaxArticles
        /\ feedsFile' = SaveToJson(r.subs)
        /\ articlesFile' = SaveToJson(r.articles)
        /\ last' = Call("refresh_all", "ok")
        /\ ret' = NoReturn
        /\ UNCHANGED <<pureVars, ingestVars, use_database, clock, journalVars,
                       concVars, trip, web, dbFeeds,
                       dbArticles, nextFeedId, lastParse>>

\* toggle_data.get('is_active', ...): the key is given (Some) or not (None).
ToggleData == {None, Some(TRUE), Some(FALSE)}

\* POST /api/feeds/subscriptions/{subscription_id}/toggle
\* The subscription is looked up among the caller's, its is_active is set on
\* the object in memory, and the object's dict is handed to
\* create_feed_subscription.  ret holds the id asked for, whether it was
\* found, and the object after the assignment.
ToggleFeedSubscription ==
    \E u \in Users, subscription_id \in 1..MaxSubs, toggle_data \in ToggleData,
       o \in DbOutcomes :
        LET t1 == TryDatabaseOperation(use_database, o)
            subs == IF t1.path = "db" THEN DbGetAllFeedSubscriptions(dbFeeds, u, o)
                    ELSE LoadFromJson(feedsFile)
            i == FirstIndex(subs, subscription_id)
            subscription ==
                [subs[i] EXCEPT !.is_active = IF toggle_data = None THEN ~@
                                              ELSE toggle_data[1]]
            t2 == TryDatabaseOperation(t1.flag, o)
            id == nextFeedId + 1
            dbr == DbCreateFeedSubscription(dbFeeds, subscription, clock, id, o)
            jsr == CreateFeedJson(feedsFile, subscription, clock, id)
            created == IF t2.path = "db" THEN dbr.res ELSE jsr.res
        IN  /\ last' = Call("toggle", o)
            /\ IF i = 0
               THEN /\ use_database' = t1.flag
                    /\ ret' = Outcome(Returned(<<>>, FALSE), subscription_id, u)
                    /\ UNCHANGED <<dbFeeds, feedsFile, nextFeedId>>
               ELSE /\ nextFeedId < MaxSubs
                    /\ use_database' = t2.flag
                    /\ dbFeeds' = IF t2.path = "db" THEN dbr.db ELSE dbFeeds
                    /\ feedsFile' = IF t2.path = "json" THEN jsr.file ELSE feedsFile
                    /\ nextFeedId' = IF created = None THEN nextFeedId ELSE id
                    /\ ret' = Outcome(Returned(<<subscription>>, TRUE),
                                      subscription_id, u)
            /\ UNCHANGED <<pureVars, ingestVars, clock, journalVars, concVars,
                           trip, web, dbArticles, articlesFile, lastParse>>

JournalIdle ==
    /\ dbJournals = <<>>
    /\ journalsFile = AbsentFile
    /\ nextId = 0
    /\ createdInDb = {}

FeedSpecInit ==
    /\ use_database = TRUE
    /\ clock = 1
    /\ last = Call("init", "ok")
    /\ JournalIdle
    /\ FeedInit
    /\ ConcIdle
    /\ ret = NoReturn
    /\ TripIdle
    /\ PureIdle
    /\ IngestIdle

FeedNext ==
    \/ Publish \/ AddFeedSubscription \/ RefreshFeeds \/ RefreshAllFeeds
    \/ DeleteFeedSubscription

FeedSpec == FeedSpecInit /\ [][FeedNext]_vars

\* The feed endpoints with the toggle, while the feeds serve what they
\* served at the start.
ToggleNext ==
    \/ AddFeedSubscription \/ ToggleFeedSubscription \/ DeleteFeedSubscription
    \/ RefreshFeeds \/ RefreshAllFeeds

ToggleSpec == FeedSpecInit /\ [][ToggleNext]_vars

\* ======================================= update_journal, step by step
\* Two requests may run hybrid_service.update_journal at once.  A call
\* suspends at the remote round trip and between the load, the open and the
\* write of journals.json.

\* A journal the remote table holds when the process starts.
RemoteJournal ==
    [id |-> 1, title |-> "t1", content |-> <<"x">>, created_at |-> 0,
     updated_at |-> 0, word_count |-> 1, keywords |-> Some(<<>>), user_id |-> "u1"]

\* open(path, 'w') has truncated the file and nothing is written yet; also
\* the bytes of two overlapping writes.  json.load rejects both.
Truncated == [exists |-> TRUE, partial |-> TRUE, data |-> <<>>]

\* The update dicts the overlapping requests send: a new title, a longer
\* content, an empty content.
ConcUpdates ==
    {[title |-> Some("t2"), content |-> None],
     [title |-> None, content |-> Some(Words(MaxWords))],
     [title |-> None, content |-> Some(Words(0))]}

\* maxStamp once the stores hold db and file.
StampAfter(db, file) ==
    LET stored == {db[i] : i \in 1..Len(db)}
                    \cup {ValidRecs(file)[i] : i \in 1..Len(ValidRecs(file))}
        Top(id, m) ==
            IF \E j \in stored : j.id = id /\ j.updated_at > m
            THEN CHOOSE n \in 0..MaxClock :
                    /\ \E j \in stored : j.id = id /\ j.updated_at = n
                    /\ \A j \in stored : j.id = id => j.updated_at <= n
            ELSE m
    IN  [id \in 0..MaxIds |-> Top(id, maxStamp[id])]

ConcInit ==
    /\ use_database = TRUE
    /\ clock = 1
    /\ last = Call("init", "ok")
    /\ dbJournals = <<RemoteJournal>>
    /\ journalsFile = SaveToJson(<<LegacyJournal>>)
    /\ nextId = 1
    /\ createdInDb = {}
    /\ FeedInit
    /\ ConcIdle
    /\ ret = NoReturn
    /\ TripIdle
    /\ PureIdle
    /\ IngestIdle

\* The wall clock advances.
ConcTick ==
    /\ ~crashed
    /\ clock < MaxClock
    /\ clock' = clock + 1
    /\ UNCHANGED <<pureVars, ingestVars, use_database, last, journalVars,
                   feedVars, ret, trip, concVars>>

\* A request enters _try_database_operation and reads use_database; on the
\* remote path update_journal builds update_data (with datetime.now()) before
\* it sends the request.
Begin(t) ==
    \E id \in 0..MaxIds, data \in ConcUpdates :
        /\ ~crashed
        /\ pc[t] = "idle"
        /\ pc' = [pc EXCEPT ![t] = IF use_database THEN "db" ELSE "load"]
        /\ req' = [req EXCEPT ![t] = [id |-> id, data |-> data, now |-> clock,
                                     snap |-> AbsentFile, flag |-> use_database]]
        /\ UNCHANGED <<pureVars, ingestVars, use_database, clock, last,
                       journalVars, feedVars, ret, trip,
                       crashed, maxStamp>>

\* The remote round trip ends: the row is updated, the Supabase request
\* failed, or an exception reaches _try_database_operation, which clears the
\* flag and goes on with the JSON operation.
DbReturn(t) ==
    \E o \in DbOutcomes :
        LET r == req[t]
            try == TryDatabaseOperation(r.flag, o)
            dbr == DbUpdateJournal(dbJournals, r.id, r.data, r.now, o)
        IN  /\ ~crashed
            /\ pc[t] = "db"
            /\ use_database' = (use_database /\ try.flag)
            /\ dbJournals' = IF try.path = "db" THEN dbr.db ELSE dbJournals
            /\ pc' = [pc EXCEPT ![t] = IF try.path = "db" THEN "idle" ELSE "load"]
            /\ req' = IF try.path = "db" THEN [req EXCEPT ![t] = NoRequest] ELSE req
            /\ maxStamp' = StampAfter(dbJournals', journalsFile)
            /\ UNCHANGED <<pureVars, ingestVars, clock, last, journalsFile,
                           nextId, createdInDb,
                           feedVars, ret, trip, crashed>>

\* _update_journal_json reads journals.json and the clock; without the
\* journal it returns None.
Load(t) ==
    /\ ~crashed
    /\ pc[t] = "load"
    /\ IF FirstIndex(LoadFromJson(journalsFile), req[t].id) = 0
       THEN /\ pc' = [pc EXCEPT ![t] = "idle"]
            /\ req' = [req EXCEPT ![t] = NoRequest]
       ELSE /\ pc' = [pc EXCEPT ![t] = "open"]
            /\ req' = [req EXCEPT ![t].snap = journalsFile, ![t].now = clock]
    /\ UNCHANGED <<pureVars, ingestVars, use_database, clock, last,
                   journalVars, feedVars, ret, trip, crashed,
                   maxStamp>>

\* _save_journals_to_json: open(path, 'w') truncates journals.json.
SaveOpen(t) ==
    /\ ~crashed
    /\ pc[t] = "open"
    /\ journalsFile' = Truncated
    /\ pc' = [pc EXCEPT ![t] = "write"]
    /\ UNCHANGED <<pureVars, ingestVars, use_database, clock, last,
                   dbJournals, nextId, createdInDb,
                   feedVars, ret, trip, req, crashed, maxStamp>>

\* The length of the document json.dump writes for a file's entries, up to
\* what all documents here share: titles, timestamps and counts have one
\* width, so the lengths differ by the contents.
RECURSIVE DocSize(_)
DocSize(data) ==
    IF data = <<>> THEN 0
    ELSE Len(Head(data).rec.content) + DocSize(Tail(data))

\* _save_journals_to_json: json.dump and close write the collection from
\* offset 0 of the writer's own descriptor.  When another writer wrote since
\* this one's open, the bytes overlay each other: the file holds this
\* writer's document, followed by the tail of the other one if that was
\* longer (Truncated stands for every content json.load rejects).
SaveWrite(t) ==
    LET r == req[t]
        new == UpdateJournalJson(r.snap, r.id, r.data, r.now).file
    IN  /\ ~crashed
        /\ pc[t] = "write"
        /\ journalsFile' = IF DocSize(new.data) < DocSize(journalsFile.data)
                           THEN Truncated ELSE new
        /\ pc' = [pc EXCEPT ![t] = "idle"]
        /\ req' = [req EXCEPT ![t] = NoRequest]
        /\ maxStamp' = StampAfter(dbJournals, journalsFile')
        /\ UNCHANGED <<pureVars, ingestVars, use_database, clock, last,
                       dbJournals, nextId,
                       createdInDb, feedVars, ret, trip, crashed>>

\* The process is killed while a call is under way.
Crash ==
    /\ ~crashed
    /\ \E t \in Threads : pc[t] # "idle"
    /\ crashed' = TRUE
    /\ pc' = [t \in Threads |-> "dead"]
    /\ UNCHANGED <<pureVars, ingestVars, use_database, clock, last,
                   journalVars, feedVars, ret, trip, req,
                   maxStamp>>

Step(t) == Begin(t) \/ DbReturn(t) \/ Load(t) \/ SaveOpen(t) \/ SaveWrite(t)

ConcNext == ConcTick \/ Crash \/ \E t \in Threads : Step(t)

ConcSpec == ConcInit /\ [][ConcNext]_vars

\* ================================= records to JSON text and back again
\* record.dict() -> json.dump -> json.load -> Model(**entry), for the four
\* models of database_service.py.  A Python value is [t, v]: its type and its
\* repr; a JSON value is [t, v]: its kind and its text in the file.

\* Most records in a collection.
MaxColl == 2

Kinds == {"journal", "feed", "article", "document"}

Py(t, v) == [t |-> t, v |-> v]
PyNone == Py("NoneType", "None")

\* The fields of a model: name, annotated type, whether None is allowed
\* (Optional[...]), whether the field may be left out, and its default.
Field(name, type, optional, has_default, default) ==
    [name |-> name, type |-> type, optional |-> optional,
     has_default |-> has_default, default |-> default]
Required(name, type) == Field(name, type, FALSE, FALSE, PyNone)

Schema(kind) ==
    CASE kind = "journal" ->
            {Required("id", "str"), Required("title", "str"),
             Required("content", "str"), Required("created_at", "str"),
             Required("updated_at", "str"), Required("word_count", "int"),
             Field("keywords", "dict", TRUE, TRUE, Py("dict", "{}")),
             Field("user_id", "str", TRUE, TRUE, PyNone)}
      [] kind = "feed" ->
            {Required("id", "str"), Required("url", "str"),
             Required("title", "str"), Required("description", "str"),
             Required("last_updated", "str"),
             Field("is_active", "bool", FALSE, TRUE, Py("bool", "True")),
             Field("user_id", "str", TRUE, TRUE, PyNone)}
      [] kind = "article" ->
            {Required("id", "str"), Required("title", "str"),
             Required("source", "str"), Required("snippet", "str"),
             Required("date", "str"), Required("type", "str"),
             Field("url", "str", TRUE, TRUE, PyNone),
             Field("feed_id", "str", TRUE, TRUE, PyNone),
             Field("content", "str", TRUE, TRUE, PyNone),
             Field("author", "str", TRUE, TRUE, PyNone),
             Field("tags", "list", TRUE, TRUE, Py("list", "[]")),
             Field("user_id", "str", TRUE, TRUE, PyNone)}
      [] kind = "document" ->
            {Required("id", "str"), Required("name", "str"),
             Required("type", "str"), Required("size", "int"),
             Required("upload_date", "str"),
             Field("content", "str", TRUE, TRUE, PyNone),
             Field("status", "str", FALSE, TRUE, Py("str", "ready")),
             Field("user_id", "str", TRUE, TRUE, PyNone)}

FieldNames(kind) == {f.name : f \in Schema(kind)}
FieldOf(kind, name) == CHOOSE f \in Schema(kind) : f.name = name

\* The fields whose value varies over the records considered: the contents
\* (empty, non-ASCII: [U+E9] stands for the character e-acute), the optional
\* fields and the fields with a default.  A field not named here holds one
\* plain value of its type.
Varied(kind) ==
    CASE kind = "journal" -> {"content", "keywords", "user_id"}
      [] kind = "feed" -> {"description", "is_active", "user_id"}
      [] kind = "article" -> {"url", "content", "tags", "user_id"}
      [] kind = "document" -> {"size", "content", "user_id"}

ValuesOfType(type) ==
    CASE type = "str" -> {Py("str", ""), Py("str", "caf[U+E9] x")}
      [] type = "int" -> {Py("int", "0"), Py("int", "1")}
      [] type = "bool" -> {Py("bool", "True"), Py("bool", "False")}
      [] type = "dict" -> {Py("dict", "{}"), Py("dict", "{'word': 1}")}
      [] type = "list" -> {Py("list", "[]"), Py("list", "['tag']")}

PlainValue(type) ==
    CASE type = "str" -> Py("str", "a")
      [] type = "int" -> Py("int", "1")
      [] type = "bool" -> Py("bool", "True")
      [] type = "dict" -> Py("dict", "{}")
      [] type = "list" -> Py("list", "[]")

\* The values a validated model instance can hold in a field.
FieldValues(kind, name) ==
    LET f == FieldOf(kind, name)
    IN  IF name \in Varied(kind)
        THEN ValuesOfType(f.type) \cup (IF f.optional THEN {PyNone} ELSE {})
        ELSE {PlainValue(f.type)}

Entities(kind) ==
    LET choices ==
            {c \in [Varied(kind) -> UNION {FieldValues(kind, n) : n \in Varied(kind)}] :
                \A n \in Varied(kind) : c[n] \in FieldValues(kind, n)}
    IN  {[n \in FieldNames(kind) |->
            IF n \in Varied(kind) THEN c[n] ELSE PlainValue(FieldOf(kind, n).type)] :
         c \in choices}

\* ---- json.dump (ensure_ascii is left True) and json.load
Js(t, v) == [t |-> t, v |-> v]

EscapeText(v) == IF v = "caf[U+E9] x" THEN "caf\\u00e9 x" ELSE v
UnescapeText(v) == IF v = "caf\\u00e9 x" THEN "caf[U+E9] x" ELSE v

\* (variant: an encoder that leaves out the keys whose value is None)
DumpEntryOmittingNone(kind, e) ==
    LET kept == {n \in FieldNames(kind) : e[n] # PyNone}
        Text(val) ==
            CASE val.t = "str" -> Js("string", EscapeText(val.v))
              [] val.t = "int" -> Js("number", val.v)
              [] val.t = "bool" -> Js(IF val.v = "True" THEN "true" ELSE "false", "")
              [] val.t = "dict" ->
                    Js("object", IF val.v = "{}" THEN "{}" ELSE "{\"word\": 1}")
              [] val.t = "list" ->
                    Js("array", IF val.v = "[]" THEN "[]" ELSE "[\"tag\"]")
    IN  [n \in kept |-> Text(e[n])]

\* The JSON value json.dump writes for a Python value.
DumpValue(val) ==
    CASE val.t = "NoneType" -> Js("null", "")
      [] val.t = "str" -> Js("string", EscapeText(val.v))
      [] val.t = "int" -> Js("number", val.v)
      [] val.t = "bool" -> Js(IF val.v = "True" THEN "true" ELSE "false", "")
      [] val.t = "dict" ->
            Js("object", IF val.v = "{}" THEN "{}" ELSE "{\"word\": 1}")
      [] val.t = "list" ->
            Js("array", IF val.v = "[]" THEN "[]" ELSE "[\"tag\"]")

\* The Python value json.load builds from a JSON value.
LoadValue(j) ==
    CASE j.t = "null" -> PyNone
      [] j.t = "string" -> Py("str", UnescapeText(j.v))
      [] j.t = "number" -> Py("int", j.v)
      [] j.t = "true" -> Py("bool", "True")
      [] j.t = "false" -> Py("bool", "False")
      [] j.t = "object" -> Py("dict", IF j.v = "{}" THEN "{}" ELSE "{'word': 1}")
      [] j.t = "array" -> Py("list", IF j.v = "[]" THEN "[]" ELSE "['tag']")

\* record.dict() written by json.dump: one JSON object, a key per field.
DumpEntry(kind, e) == [n \in FieldNames(kind) |-> DumpValue(e[n])]

\* Model(**entry): the validation error, if any, of the dict json.load built.
Rejects(kind, entry) ==
    \E f \in Schema(kind) :
        IF f.name \notin DOMAIN entry THEN ~f.has_default
        ELSE LET val == LoadValue(entry[f.name])
             IN  IF val = PyNone THEN ~f.optional ELSE val.t # f.type

\* Model(**entry) of an entry it accepts: a left-out field takes its default.
Construct(kind, entry) ==
    [n \in FieldNames(kind) |->
        IF n \in DOMAIN entry THEN LoadValue(entry[n])
        ELSE FieldOf(kind, n).default]

\* _save_<kind>_to_json(records): the content of the file afterwards.
SaveCollection(kind, records) ==
    [exists |-> TRUE, partial |-> FALSE,
     data |-> [i \in 1..Len(records) |-> DumpEntry(kind, records[i])]]

\* _load_<kind>_from_json(): [] for an absent file and when anything raises.
LoadCollection(kind, file) ==
    IF ~file.exists \/ file.partial THEN <<>>
    ELSE IF \E i \in 1..Len(file.data) : Rejects(kind, file.data[i]) THEN <<>>
    ELSE [i \in 1..Len(file.data) |-> Construct(kind, file.data[i])]

Collections(kind) ==
    UNION {[1..n -> Entities(kind)] : n \in 0..MaxColl}

\* A collection of one kind is held in memory.
TripInit ==
    /\ \E kind \in Kinds :
            \E held \in Collections(kind) :
                trip = [kind |-> kind, held |-> held, phase |-> "held",
                        file |-> AbsentFile, back |-> <<>>]
    /\ use_database = FALSE
    /\ clock = 1
    /\ last = Call("init", "ok")
    /\ JournalIdle
    /\ FeedInit
    /\ ConcIdle
    /\ ret = NoReturn
    /\ PureIdle
    /\ IngestIdle

\* _save_<kind>_to_json(held)
TripSave ==
    /\ trip.phase = "held"
    /\ trip' = [trip EXCEPT !.phase = "saved",
                            !.file = SaveCollection(trip.kind, trip.held)]
    /\ UNCHANGED <<pureVars, ingestVars, use_database, clock, last, journalVars,
                   feedVars, concVars, ret>>

\* _load_<kind>_from_json()
TripLoad ==
    /\ trip.phase = "saved"
    /\ trip' = [trip EXCEPT !.phase = "loaded",
                            !.back = LoadCollection(trip.kind, trip.file)]
    /\ UNCHANGED <<pureVars, ingestVars, use_database, clock, last, journalVars,
                   feedVars, concVars, ret>>

TripNext == TripSave \/ TripLoad

TripSpec == TripInit /\ [][TripNext]_vars


\* ================================================ extract_keywords alone
\* Most words in a text handed to extract_keywords.
MaxLexemes == 3

\* The words texts are made of: two keywords, one of them capitalised too, a
\* word of three letters, a stop word of four, a number, and a word with an
\* apostrophe.
Lexemes ==
    {<<"t", "r", "e", "e">>,
     <<"b", "i", "r", "d">>,
     <<"T", "r", "e", "e">>,
     <<"c", "a", "t">>,
     <<"t", "h", "i", "s">>,
     <<"2", "0", "2", "4">>,
     <<"o", "'", "c", "l", "o", "c", "k">>}

\* What stands between two words.
Separators == {<<" ">>, <<".", "\n">>}

\* sep.join(words)
RECURSIVE Join(_, _)
Join(words, sep) ==
    IF words = <<>> THEN <<>>
    ELSE IF Len(words) = 1 THEN words[1]
    ELSE words[1] \o sep \o Join(Tail(words), sep)

\* "the cat sat on the mat and the cat ate" and "tree tree tree bird"
CatText ==
    Join(<<<<"t", "h", "e">>,
           <<"c", "a", "t">>,
           <<"s", "a", "t">>,
           <<"o", "n">>,
           <<"t", "h", "e">>,
           <<"m", "a", "t">>,
           <<"a", "n", "d">>,
           <<"t", "h", "e">>,
           <<"c", "a", "t">>,
           <<"a", "t", "e">>>>,
         <<" ">>)
TreeText ==
    Join(<<<<"t", "r", "e", "e">>, <<"t", "r", "e", "e">>, <<"t", "r", "e", "e">>, <<"b", "i", "r", "d">>>>,
         <<" ">>)

\* A text of TopN + 1 different keywords, the last of them written twice.
Letter(i) == <<"a", "b", "c", "d", "e", "f">>[i + 1]
LongWord(k) == <<"i", "t", "e", "m", Letter(k \div 6), Letter(k % 6)>>
LongText ==
    Join([k \in 1..(TopN + 2) |-> LongWord(IF k = TopN + 2 THEN TopN + 1 ELSE k)],
         <<" ">>)

KeywordTexts ==
    {Join(words, sep) :
        words \in UNION {[1..n -> Lexemes] : n \in 0..MaxLexemes},
        sep \in Separators}
      \cup {CatText, TreeText, LongText}

KeywordInit ==
    /\ kw \in {[text |-> t, phase |-> "given", result |-> <<>>] : t \in KeywordTexts}
    /\ fe = [entry |-> NoEntry, phase |-> "none", article |-> NoArticle]
    /\ IngestIdle
    /\ use_database = TRUE
    /\ clock = 1
    /\ last = Call("init", "ok")
    /\ JournalIdle
    /\ FeedInit
    /\ ConcIdle
    /\ ret = NoReturn
    /\ TripIdle

\* extract_keywords(text)
ExtractKeywordsCall ==
    /\ kw.phase = "given"
    /\ kw' = [kw EXCEPT !.phase = "done", !.result = ExtractKeywords(kw.text)]
    /\ UNCHANGED <<fe, ingestVars, use_database, clock, last, journalVars,
                   feedVars, concVars, ret, trip>>

KeywordNext == ExtractKeywordsCall

KeywordSpec == KeywordInit /\ [][KeywordNext]_vars


\* ===================================== one feed entry, made into an article
\* How far the texts of an entry go beyond the two length limits.
MaxOver == 1

\* content[:200] and soup.get_text()[:1000]
SnippetLimit == 200
ContentLimit == 1000

\* An HTML text is a sequence of characters and tags, one element per tag.
Tags == {"<p>", "</p>", "<br>", "<img>"}
Plain(n) == [i \in 1..n |-> "a"]
Html(n) == <<"<p>">> \o Plain(n) \o <<"</p>">>
EntryTexts ==
    {Plain(0), Plain(1), <<"<br>">>, <<"<img>", "a">>}
        \cup {Plain(SnippetLimit + k) : k \in 0..MaxOver}
        \cup {Html(SnippetLimit + k) : k \in 1..MaxOver}
        \cup {Plain(ContentLimit + k) : k \in 1..MaxOver}

\* A feed entry: each attribute is there (Some) or not (None); content is a
\* list of values.
Entries ==
    {[content |-> c, summary |-> sm, description |-> d] :
        c \in {None, Some(<<>>)} \cup {Some(<<t>>) : t \in EntryTexts},
        sm \in {None} \cup {Some(t) : t \in EntryTexts},
        d \in {None, Some(Plain(1))}}

\* BeautifulSoup(content, 'html.parser').get_text()
GetText(html) == SelectSeq(html, LAMBDA c : c \notin Tags)

\* text[:n]
Truncate(text, n) == SubSeq(text, 1, Min(Len(text), n))

\* parse_rss_feed, "Extract content" and "Clean HTML content"
EntryContent(entry) ==
    LET content ==
            IF entry.content # None /\ entry.content[1] # <<>>
            THEN entry.content[1][1]
            ELSE IF entry.summary # None THEN entry.summary[1]
            ELSE <<>>
    IN  IF content # <<>> THEN Truncate(GetText(content), ContentLimit)
        ELSE <<>>

Ellipsis == <<".", ".", ".">>

\* (variant: the cut text is not marked)
SnippetOfUnmarked(text) == Truncate(text, SnippetLimit)

\* text[:200] + "..." if len(text) > 200 else text
SnippetOf(text) ==
    IF Len(text) > SnippetLimit THEN Truncate(text, SnippetLimit) \o Ellipsis
    ELSE text

\* parse_rss_feed, "Extract snippet"
EntrySnippet(entry, content) ==
    LET snippet == SnippetOf(content)
    IN  IF snippet = <<>> /\ entry.summary # None THEN SnippetOf(entry.summary[1])
        ELSE snippet

\* sanitize_html: bleach.clean(..., strip=True) removes the tags that are not
\* allowed.
AllowedTags == {"<p>", "</p>", "<br>"}
SanitizeHtml(html) == SelectSeq(html, LAMBDA c : c \notin Tags \ AllowedTags)

\* ingest_rss, the content of an item
IngestContent(it) ==
    LET content ==
            IF it.content # None /\ it.content[1] # <<>> THEN it.content[1][1]
            ELSE IF it.summary # None THEN it.summary[1]
            ELSE IF it.description # None THEN it.description[1]
            ELSE <<>>
    IN  SanitizeHtml(content)

EntryInit ==
    /\ fe \in {[entry |-> en, phase |-> "given", article |-> NoArticle] :
                 en \in Entries}
    /\ kw = [text |-> <<>>, phase |-> "none", result |-> <<>>]
    /\ IngestIdle
    /\ use_database = TRUE
    /\ clock = 1
    /\ last = Call("init", "ok")
    /\ JournalIdle
    /\ FeedInit
    /\ ConcIdle
    /\ ret = NoReturn
    /\ TripIdle

\* parse_rss_feed: the body of its loop, for one entry
ParseEntry ==
    /\ fe.phase = "given"
    /\ fe' = [fe EXCEPT
                !.phase = "parsed",
                !.article = [content |-> EntryContent(fe.entry),
                             snippet |-> EntrySnippet(fe.entry,
                                                      EntryContent(fe.entry))]]
    /\ UNCHANGED <<kw, ingestVars, use_database, clock, last, journalVars,
                   feedVars, concVars, ret, trip>>

\* ingest_rss: the body of its loop, for one entry
IngestEntry ==
    /\ fe.phase = "given"
    /\ fe' = [fe EXCEPT
                !.phase = "ingested",
                !.article = [content |-> IngestContent(fe.entry),
                             snippet |-> <<>>]]
    /\ UNCHANGED <<kw, ingestVars, use_database, clock, last, journalVars,
                   feedVars, concVars, ret, trip>>

EntryNext == ParseEntry \/ IngestEntry

EntrySpec == EntryInit /\ [][EntryNext]_vars


\* ============================== the ingest endpoint and data/feeds.json
\* The module global FEEDS_FILE.  Line 14 of main.py binds it to the Path
\* data/feeds.json; line 361 binds it again, to the str
\* "feed_subscriptions.json".  ensure_data_file and write_db read the global
\* when they run, which is after the module was imported: they find the str.
FEEDS_FILE == [type |-> "str", name |-> "feed_subscriptions.json"]

\* Path.with_suffix(".tmp")
WithSuffixTmp(name) ==
    IF name = "data/feeds.json" THEN "data/feeds.tmp" ELSE name

\* ensure_data_file(): FEEDS_FILE.exists() raises AttributeError on a str.
EnsureDataFile(binding, dir) ==
    IF binding.type # "Path" THEN [raised |-> TRUE, dir |-> dir]
    ELSE IF dir[binding.name].exists THEN [raised |-> FALSE, dir |-> dir]
    ELSE [raised |-> FALSE,
          dir |-> [dir EXCEPT ![binding.name] = DataFile(<<>>)]]

\* read_db()
ReadDb(binding, dir) ==
    LET en == EnsureDataFile(binding, dir)
    IN  IF en.raised THEN [raised |-> TRUE, dir |-> dir, db |-> <<>>]
        ELSE IF en.dir[binding.name].partial
        THEN [raised |-> TRUE, dir |-> en.dir, db |-> <<>>]
        ELSE [raised |-> FALSE, dir |-> en.dir,
              db |-> en.dir[binding.name].feeds]

\* Where the process may be killed during write_db.
Kills == {"none", "in write_text", "before replace"}

\* write_db(obj): FEEDS_FILE.with_suffix raises AttributeError on a str;
\* on a Path the object is written to the .tmp file, which then replaces the
\* file.
WriteDb(binding, dir, obj, kill) ==
    IF binding.type # "Path" THEN [raised |-> TRUE, killed |-> FALSE, dir |-> dir]
    ELSE LET tmp == WithSuffixTmp(binding.name)
             written == [dir EXCEPT ![tmp] = DataFile(obj)]
         IN  CASE kill = "in write_text" ->
                    [raised |-> FALSE, killed |-> TRUE,
                     dir |-> [dir EXCEPT ![tmp] = PartialDataFile]]
               [] kill = "before replace" ->
                    [raised |-> FALSE, killed |-> TRUE, dir |-> written]
               [] OTHER ->
                    [raised |-> FALSE, killed |-> FALSE,
                     dir |-> [written EXCEPT ![binding.name] = written[tmp],
                                             ![tmp] = NoDataFile]]

\* hash_url(url): the first 12 hex digits of the SHA-256 of the url (two
\* urls with the same digits are not considered).
HashUrl(url) == "sha256:" \o url

\* payload.url, and payload.url.strip()
IngestUrls == {"", " ", "f1", "f2", " f1"}
StripUrl(url) ==
    IF url = " " THEN "" ELSE IF url = " f1" THEN "f1" ELSE url

\* stored_feed
StoredFeed(url, doc, now) ==
    [id |-> HashUrl(url), url |-> url, fetchedAt |-> now,
     items |-> [i \in 1..Len(doc.entries) |-> [link |-> doc.entries[i]]]]

\* db["feeds"][existing_idx] = stored_feed, or db["feeds"].append(stored_feed)
Upsert(feeds, stored_feed) ==
    LET existing_idx == FirstIndex(feeds, stored_feed.id)
    IN  IF existing_idx # 0 THEN [feeds EXCEPT ![existing_idx] = stored_feed]
        ELSE Append(feeds, stored_feed)

\* ingest_rss(payload): the status of the answer (an exception that leaves
\* the function is named) and the data directory afterwards.
IngestRssCall(binding, dir, payload_url, docs, now, kill) ==
    LET url == StripUrl(payload_url)
        parsed == docs[url]
        rd == ReadDb(binding, dir)
        wr == WriteDb(binding, rd.dir, Upsert(rd.db, StoredFeed(url, parsed, now)),
                      kill)
    IN  IF url = "" THEN [status |-> "400", killed |-> FALSE, dir |-> dir]
        ELSE IF parsed.bozo /\ parsed.entries = <<>>
        THEN [status |-> "400", killed |-> FALSE, dir |-> dir]
        ELSE IF rd.raised
        THEN [status |-> "AttributeError", killed |-> FALSE, dir |-> rd.dir]
        ELSE IF wr.raised
        THEN [status |-> "AttributeError", killed |-> FALSE, dir |-> wr.dir]
        ELSE [status |-> "200", killed |-> wr.killed, dir |-> wr.dir]

\* The feeds lists an earlier run can have left in data/feeds.json, and the
\* objects handed to write_db.
IngestedFeeds ==
    {<<>>,
     <<StoredFeed("f1", Doc(FALSE, <<"A">>), 0)>>,
     <<StoredFeed("f2", Doc(FALSE, <<"A">>), 0),
       StoredFeed("f1", Doc(FALSE, <<"A">>), 0)>>}

IngestInit ==
    /\ \E feeds \in IngestedFeeds, there \in BOOLEAN :
            dataDir = [n \in DataFileNames |->
                          IF n = "data/feeds.json" /\ there THEN DataFile(feeds)
                          ELSE NoDataFile]
    /\ ingest = NoIngest
    /\ PureIdle
    /\ use_database = TRUE
    /\ clock = 1
    /\ last = Call("init", "ok")
    /\ JournalIdle
    /\ FeedInit
    /\ ConcIdle
    /\ ret = NoReturn
    /\ TripIdle

\* POST /api/ingest-rss
IngestRss ==
    \E payload_url \in IngestUrls, kill \in Kills :
        LET r == IngestRssCall(FEEDS_FILE, dataDir, payload_url, web, clock, kill)
        IN  /\ ~ingest.killed
            /\ dataDir' = r.dir
            /\ ingest' = [op |-> "ingest_rss", url |-> StripUrl(payload_url),
                          status |-> r.status, obj |-> <<>>, killed |-> r.killed]
            /\ UNCHANGED <<pureVars, use_database, clock, last, journalVars,
                           feedVars, concVars, ret, trip>>

\* write_db(obj)
WriteDbCall ==
    \E obj \in IngestedFeeds, kill \in Kills :
        LET r == WriteDb(FEEDS_FILE, dataDir, obj, kill)
        IN  /\ ~ingest.killed
            /\ dataDir' = r.dir
            /\ ingest' = [op |-> "write_db", url |-> "",
                          status |-> IF r.raised THEN "AttributeError" ELSE "ok",
                          obj |-> obj, killed |-> r.killed]
            /\ UNCHANGED <<pureVars, use_database, clock, last, journalVars,
                           feedVars, concVars, ret, trip>>

IngestNext == Publish \/ IngestRss \/ WriteDbCall

IngestSpec == IngestInit /\ [][IngestNext]_vars

\* ------------------------------------------------------------------ claims
HybridCalls == {"create", "update", "delete", "get"}

\* Every journal the two stores hold.
StoredJournals ==
    {dbJournals[i] : i \in 1..Len(dbJournals)}
        \cup {ValidRecs(journalsFile)[i] : i \in 1..Len(ValidRecs(journalsFile))}

\* C1: a HybridService call made while use_database is True whose Supabase
\* request fails leaves use_database False (the call was served by the File
\* Store).
C1_RemoteFaultDegrades ==
    (last.op \in HybridCalls /\ last.pre /\ last.out = "fault")
        => use_database = FALSE

\* C2: use_database is True at construction, and once it is False no later
\* call (whatever the remote store does) makes it True again.
C2_DegradeIsPermanent ==
    /\ use_database = TRUE
    /\ [][use_database = FALSE => use_database' = FALSE]_vars

\* C2 witness: a call made after the degrade, during which the remote store
\* would have failed again.
C2_Witness ==
    use_database = FALSE /\ last.op \in HybridCalls /\ ~last.pre /\ last.out # "ok"

\* C5: after a degrade, every journal that create_journal returned from the
\* remote store (and that was not deleted since) is still returned by
\* get_journal.
C5_CreatedStaysRetrievable ==
    ~use_database =>
        \A id \in createdInDb : GetJournalJson(journalsFile, id) # None

\* C6: in FILE_ONLY mode a create adds exactly one record at the end, an
\* update changes at most the records of one id and a delete removes exactly
\* the records of one id; all other decodable records of the file stay, in
\* order, also when the file holds an entry that does not decode.
C6_FileMutationKeepsOthers ==
    [][LET V == ValidRecs(journalsFile)
           W == ValidRecs(journalsFile')
       IN  ~use_database =>
             /\ last'.op = "create" =>
                   Len(W) = Len(V) + 1 /\ SubSeq(W, 1, Len(V)) = V
             /\ last'.op = "update" =>
                   /\ Len(W) = Len(V)
                   /\ \E id \in JournalIds :
                        \A i \in 1..Len(V) : V[i].id # id => W[i] = V[i]
             /\ last'.op = "delete" =>
                   \E id \in JournalIds :
                        W = SelectSeq(V, LAMBDA r : r.id # id)
             /\ last'.op = "get" => journalsFile' = journalsFile]_vars

\* C9: every stored journal's word_count is the number of whitespace-separated
\* tokens of its stored content.
C9_WordCountMatchesContent ==
    \A j \in StoredJournals : j.word_count = WordCount(j.content)

NoDuplicateUrls(articles) ==
    \A i, j \in 1..Len(articles) :
        (i < j /\ articles[i].url # "") => articles[i].url # articles[j].url

\* C4: the stored article collection never holds two articles with the same
\* non-empty url.
C4_AtMostOnceInsertion ==
    NoDuplicateUrls(dbArticles) /\ NoDuplicateUrls(ValidRecs(articlesFile))

\* The active subscriptions whose fetch succeeds.
Fetched ==
    LET subs == LoadFromJson(feedsFile)
    IN  {i \in 1..Len(subs) :
            subs[i].is_active
                /\ ~ParseRssFeed(subs[i].url, web[subs[i].url], clock).failed}

\* C7: when refresh_all_feeds fetches one feed, the articles it appends to
\* the existing collection E are exactly the candidates whose url is empty or
\* is the url of no article of E, in candidate order.
C7_DedupMergeRule ==
    [][(last'.op = "refresh_all" /\ Cardinality(Fetched) = 1) =>
        LET sub == LoadFromJson(feedsFile)[CHOOSE i \in Fetched : TRUE]
            E == LoadFromJson(articlesFile)
            C == ParseRssFeed(sub.url, web[sub.url], clock).articles
            Accepted(a) ==
                a.url = "" \/ \A k \in 1..Len(E) : E[k].url # a.url
        IN  ValidRecs(articlesFile') = E \o SelectSeq(C, Accepted)]_vars

Urls(articles) == [i \in 1..Len(articles) |-> articles[i].url]

\* C7 witness: existing urls A, B and candidates B, C, "": C and the article
\* without url were appended, B was not.
C7_Witness ==
    /\ last.op = "refresh_all"
    /\ Urls(ValidRecs(articlesFile)) = <<"A", "B", "C", "">>
    /\ \E url \in FeedUrls : web[url] = Doc(FALSE, <<"B", "C", "">>)

\* C8: parse_rss_feed fails exactly when the parser reports an error and no
\* entry was recovered, or the feed has no entry; a feed with an error and at
\* least one recovered entry yields one article per recovered entry.
C8_FetchRejection ==
    lastParse.called =>
        LET n == Len(lastParse.doc.entries)
        IN  /\ lastParse.failed <=> ((lastParse.doc.bozo /\ n = 0) \/ n = 0)
            /\ ~lastParse.failed => lastParse.count = n

\* C3: journals.json is complete whenever it can be read: after the process
\* was killed, and while a request is about to load it during another
\* request's save.
C3_SaveIsAtomic ==
    /\ crashed => ~journalsFile.partial
    /\ (\E t \in Threads : pc[t] = "load") => ~journalsFile.partial

\* C10: no stored journal has an updated_at smaller than one stored for its
\* id before, also when two update_journal calls overlap.
C10_UpdatedAtMonotone ==
    \A j \in StoredJournals : j.updated_at >= maxStamp[j.id]

\* The calls of the journal endpoints, and the store a feed, article or
\* document operation started now would consult first.
JournalCalls == HybridCalls \cup {"list", "search"}
FeedPath == TryDatabaseOperation(use_database, "ok").path

\* C11: a journal operation, whatever the remote store does during it, leaves
\* the store that feed, article and document operations prefer as it was.
C11_FlagPerEntityClass ==
    [][last'.op \in JournalCalls => FeedPath' = FeedPath]_vars

\* C12: loading a collection file returns every decodable record of it, in
\* file order; only the undecodable ones are dropped.
C12_LoadDropsOnlyUndecodable ==
    LoadFromJson(journalsFile) = ValidRecs(journalsFile)

ReadCalls == {"get", "list", "search"}

\* The call just made was served from journals.json.
ServedFromJson == ~last.pre \/ last.out = "raise"

\* C13: a read of HybridService never raises; when the remote store fails
\* and journals.json is absent or unparsable it returns nothing.
C13_ReadsNeverRaise ==
    last.op \in ReadCalls =>
        /\ ~ret.raised
        /\ (last.pre /\ last.out = "fault") => ret.val = <<>>
        /\ (ServedFromJson /\ (~journalsFile.exists \/ journalsFile.partial))
                => ret.val = <<>>

\* C16: a step changes the user_id of no stored journal.
C16_OwnerNeverReassigned ==
    [][\A j \in StoredJournals : \A k \in StoredJournals' :
            j.id = k.id => k.user_id = j.user_id]_vars

\* C16 witness: an update of a stored journal took effect, in the file and
\* in the remote table.
C16_Witness ==
    /\ last.op = "update"
    /\ \E j \in StoredJournals : j.updated_at > j.created_at /\ j.title = "t2"
    /\ \E i \in 1..Len(ValidRecs(journalsFile)) :
            ValidRecs(journalsFile)[i].updated_at > 0

\* C17: every journal the list and search endpoints return to a user has
\* that user's user_id.
C17_OnlyOwnRecords ==
    (last.op \in {"list", "search"} /\ ~ret.raised) =>
        \A i \in 1..Len(ret.val) : ret.val[i].user_id = ret.user

\* C19: delete_journal returns True only when it removed a stored journal
\* with that id; for an id that is not stored it returns False and changes
\* nothing.
C19_DeleteReportsEffect ==
    [][last'.op = "delete" =>
        LET before == \E j \in StoredJournals : j.id = ret'.id
            after == \E j \in StoredJournals' : j.id = ret'.id
        IN  /\ ret'.ok => (before /\ ~after)
            /\ ~before => (~ret'.ok /\ UNCHANGED <<dbJournals, journalsFile>>)]_vars

\* The subscriptions and the articles the two stores hold.
StoredFeeds ==
    {dbFeeds[i] : i \in 1..Len(dbFeeds)}
        \cup {ValidRecs(feedsFile)[i] : i \in 1..Len(ValidRecs(feedsFile))}
StoredArticles ==
    {dbArticles[i] : i \in 1..Len(dbArticles)}
        \cup {ValidRecs(articlesFile)[i] : i \in 1..Len(ValidRecs(articlesFile))}

JsonSteps == {"load", "open", "write"}

C15_FinalFileComplete ==
    (\A t \in Threads : pc[t] = "idle") => ~journalsFile.partial

\* C20: a collection of any of the four kinds that was saved to its JSON file
\* and loaded back is the saved one, record by record and in order.
C20_RoundTrip ==
    trip.phase = "loaded" => trip.back = trip.held

\* C20 witness: two documents went through the file, one with empty content
\* and one without content and without user, and came back.
C20_Witness ==
    /\ trip.phase = "loaded"
    /\ trip.kind = "document"
    /\ Len(trip.back) = 2
    /\ trip.held[1]["content"] = Py("str", "")
    /\ trip.held[2]["content"] = PyNone /\ trip.held[2]["user_id"] = PyNone

\* ---- the reference derivation of the keywords of a text
\* The words of a text: the maximal runs of characters that are neither
\* whitespace nor punctuation, as [from, to] positions.
RefRuns(text) ==
    LET IsWord(i) == text[i] \notin Whitespace \cup Punctuation
        starts == {i \in 1..Len(text) : IsWord(i) /\ (i = 1 \/ ~IsWord(i - 1))}
        End(i) == CHOOSE j \in i..Len(text) :
                        /\ \A k \in i..j : IsWord(k)
                        /\ (j = Len(text) \/ ~IsWord(j + 1))
    IN  {<<i, End(i)>> : i \in starts}
\* The runs that count, each as [at, word]: where it starts and its
\* lower-cased word, which is longer than three characters, no stop word
\* and not a number.
RefEligible(text) ==
    LET all == {[at |-> r[1], word |-> Lower(SubSeq(text, r[1], r[2]))] :
                    r \in RefRuns(text)}
    IN  {e \in all :
            Len(e.word) > 3 /\ e.word \notin StopWords /\ ~IsDigit(e.word)}
RefCount(E, w) == Cardinality({e \in E : e.word = w})
RefFirst(E, w) ==
    CHOOSE i \in {e.at : e \in E} :
        /\ \E e \in E : e.at = i /\ e.word = w
        /\ \A e \in E : e.word = w => e.at >= i
\* v ranks before w: it is more frequent, or as frequent and met earlier.
RefBefore(E, v, w) ==
    \/ RefCount(E, v) > RefCount(E, w)
    \/ RefCount(E, v) = RefCount(E, w) /\ RefFirst(E, v) < RefFirst(E, w)

C23_SnippetRule ==
    fe.phase = "parsed" =>
        LET content == fe.article.content
            snippet == fe.article.snippet
            basis == IF content = <<>> /\ fe.entry.summary # None
                     THEN fe.entry.summary[1] ELSE content
        IN  /\ Len(content) <= 1000
            /\ Len(snippet) <= 203
            /\ Len(basis) <= 200 => snippet = basis
            /\ Len(basis) > 200 =>
                    /\ Len(snippet) = 203
                    /\ \A i \in 1..200 : snippet[i] = basis[i]
                    /\ \A i \in 201..203 : snippet[i] = "."

\* C23 witness: a content list whose text is longer than 1000 characters; the
\* article has 1000 of them and a snippet of 203 characters.
C23_Witness ==
    /\ fe.phase = "parsed"
    /\ fe.entry.content # None /\ fe.entry.content[1] # <<>>
    /\ Len(fe.entry.content[1][1]) > 1000
    /\ Len(fe.article.content) = 1000
    /\ Len(fe.article.snippet) = 203

\* C24: write_db(obj) puts obj into data/feeds.json through a temporary file
\* and a rename: data/feeds.json is never a partial file, also when the
\* process is killed inside write_db, and once write_db has run to its end
\* the file holds obj.
C24_WriteDbAtomic ==
    /\ ~dataDir["data/feeds.json"].partial
    /\ (ingest.op = "write_db" /\ ~ingest.killed) =>
            dataDir["data/feeds.json"] = DataFile(ingest.obj)

\* C25: data/feeds.json never holds two feeds with one id; an ingest_rss
\* call that gets past the checks of its url and of the parsed feed replaces
\* the stored feed of that url where it stands, or appends one feed for a
\* url not stored yet, and leaves every other stored feed as it was.
C25_IngestUpserts ==
    /\ [](LET F == dataDir["data/feeds.json"].feeds
          IN  \A i, j \in 1..Len(F) : F[i].id = F[j].id => i = j)
    /\ [][(ingest'.op = "ingest_rss" /\ ingest'.status # "400" /\ ~ingest'.killed) =>
            LET F == dataDir["data/feeds.json"].feeds
                G == dataDir'["data/feeds.json"].feeds
                id == HashUrl(ingest'.url)
                at == FirstIndex(F, id)
            IN  IF at # 0
                THEN /\ Len(G) = Len(F)
                     /\ G[at].id = id /\ G[at].url = ingest'.url
                     /\ \A k \in 1..Len(F) : k # at => G[k] = F[k]
                ELSE /\ Len(G) = Len(F) + 1
                     /\ G[Len(G)].id = id /\ G[Len(G)].url = ingest'.url
                     /\ SubSeq(G, 1, Len(F)) = F]_vars

\* C26: toggle_feed_subscription on a stored subscription is an upsert: the
\* stored subscription with that id then has the is_active the call set (the
\* requested value, or the negation of the previous one), and the stores
\* hold as many subscriptions as before.
C26_ToggleIsUpsert ==
    [][(last'.op = "toggle" /\ ret'.ok) =>
        /\ \E f \in StoredFeeds' : f.id = ret'.id
        /\ \A f \in StoredFeeds' :
                f.id = ret'.id => f.is_active = ret'.val[1].is_active
        /\ Len(dbFeeds') + Len(ValidRecs(feedsFile'))
                = Len(dbFeeds) + Len(ValidRecs(feedsFile))]_vars

\* The subscriptions a refresh of the given kind goes through, and the
\* articles of one of them that it is to persist.
Refreshed(op, user_id, by_db) ==
    IF op = "refresh_all" THEN LoadFromJson(feedsFile)
    ELSE IF by_db THEN SelectSeq(dbFeeds, LAMBDA f : f.user_id = user_id)
    ELSE LoadFromJson(feedsFile)
FetchOf(f) == ParseRssFeed(f.url, web[f.url], clock)

\* C27: a refresh (the refresh_feeds endpoint, refresh_all_feeds) during
\* which the stores work persists, for every active subscription it covers
\* whose fetch succeeds, the articles of that fetch, also when the fetch of
\* another subscription fails; it adds no article for an inactive
\* subscription.
C27_RefreshIsBestEffort ==
    [][(last'.op \in {"refresh", "refresh_all"} /\ (last'.out = "ok" \/ ~last'.pre)) =>
        LET subs == Refreshed(last'.op, ret'.user, last'.pre)
            before == IF last'.op = "refresh" /\ last'.pre THEN dbArticles
                      ELSE ValidRecs(articlesFile)
            after == IF last'.op = "refresh" /\ last'.pre THEN dbArticles'
                     ELSE ValidRecs(articlesFile')
            Has(articles, url) == \E k \in 1..Len(articles) : articles[k].url = url
        IN  /\ \A i \in 1..Len(subs) :
                    (subs[i].is_active /\ ~FetchOf(subs[i]).failed) =>
                        \A n \in 1..Len(FetchOf(subs[i]).articles) :
                            Has(after, FetchOf(subs[i]).articles[n].url)
            /\ \A k \in 1..Len(after) :
                    Has(before, after[k].url)
                        \/ \E i \in 1..Len(subs) :
                                /\ subs[i].is_active /\ ~FetchOf(subs[i]).failed
                                /\ Has(FetchOf(subs[i]).articles, after[k].url)]_vars

\* The update_journal endpoint answered 403: update_journal returned a
\* journal whose user_id is not the caller's.
Forbidden(r) == r.val # <<>> /\ r.val[1].user_id # r.user

\* C28: an update that is answered with 403 Forbidden leaves the stored
\* journal as it was, in both modes.
C28_RejectedUpdateChangesNothing ==
    [][(last'.op = "update" /\ Forbidden(ret')) =>
        \A j \in StoredJournals' : j.id = ret'.id => j \in StoredJournals]_vars

\* C29: the articles add_feed_subscription persists carry the id of the
\* subscription record it persisted in the same call, and the articles
\* refresh_feeds persists carry the id of the stored subscription they were
\* fetched for.
C29_ArticlesPointAtTheirSubscription ==
    [][LET db_new == SubSeq(dbArticles', Len(dbArticles) + 1, Len(dbArticles'))
           file_new == SubSeq(ValidRecs(articlesFile'),
                              Len(ValidRecs(articlesFile)) + 1,
                              Len(ValidRecs(articlesFile')))
           persisted == db_new \o file_new
       IN  /\ (last'.op = "add_feed" /\ nextFeedId' # nextFeedId) =>
                \A k \in 1..Len(persisted) : persisted[k].feed_id = nextFeedId'
           /\ last'.op = "refresh" =>
                \A k \in 1..Len(persisted) :
                    \E f \in StoredFeeds :
                        /\ f.id = persisted[k].feed_id
                        /\ f.is_active
                        /\ \E n \in 1..Len(web[f.url].entries) :
                                web[f.url].entries[n] = persisted[k].url]_vars

====
